---- MODULE Spec2Model ----
(***************************************************************************)
(* The chat relay of the three servers: app (/api/chat), judge (/api/chat) *)
(* and orchestrator (/api/chat_stream).  One server process handles        *)
(* several requests as cooperative tasks that interleave at their awaits:  *)
(* get_session, create_session, every event of runner.run_async, and the  *)
(* end of the event sequence.                                              *)
(*                                                                         *)
(* Text is a sequence of one-character strings.  The session service and   *)
(* the runner are external: their outcomes (found, absent, raises; next    *)
(* event, end, raises) are nondeterministic choices.                       *)
(***************************************************************************)
EXTENDS Integers, Sequences, FiniteSets, TLC

\* ------------------------------------------------------------------ bounds
NumReq == 2
MaxEvents == 2

Req == 1..NumReq

\* ------------------------------------------------------------------ data
Servers == {"app", "judge", "orchestrator"}
UserIds == {"test_user"}
SessionIds == {"test_session", "s2"}

NoSession == "None"
NL == "\n"
Whitespace == {" ", "\n", "\t", "\r"}

\* a part of genai_types.Content: text is None or a string
NoText == [none |-> TRUE, text |-> <<>>]
Part(s) == [none |-> FALSE, text |-> s]
Texts == {NoText, Part(<<>>), Part(<<"a">>), Part(<<" ">>), Part(<<"a", " ">>)}

\* an event of runner.run_async: content None, or content with parts
Event(a, p) == [author |-> a, has_content |-> TRUE, parts |-> p]
NoContentEvent(a) == [author |-> a, has_content |-> FALSE, parts |-> <<>>]

Authors == {"researcher", "judge", "content_builder", "other"}
KnownAuthors == {"researcher", "judge", "content_builder"}

PartLists == {<<>>} \cup {<<t>> : t \in Texts} \cup {<<t, u>> : t \in Texts, u \in Texts}
Events == {NoContentEvent(a) : a \in Authors} \cup {Event(a, p) : a \in Authors, p \in PartLists}

\* the events of the turns that interleave: the runner answers each request with
\* events of its own
ConcEvents(r) == IF r % 2 = 1 THEN {Event("researcher", <<Part(<<"a">>)>>)}
                 ELSE {Event("other", <<Part(<<" ">>), NoText, Part(<<"a", " ">>)>>)}

\* ------------------------------------------------------------------ text
RECURSIVE LStrip(_)
LStrip(s) == IF s = <<>> THEN s
             ELSE IF Head(s) \in Whitespace THEN LStrip(Tail(s)) ELSE s

RECURSIVE RStrip(_)
RStrip(s) == IF s = <<>> THEN s
             ELSE IF s[Len(s)] \in Whitespace THEN RStrip(SubSeq(s, 1, Len(s) - 1)) ELSE s

\* str.strip()
Strip(s) == RStrip(LStrip(s))

\* `if part.text:` (None and "" are both falsy)
PartHasText(p) == ~p.none /\ p.text # <<>>

\* `if event.content and event.content.parts:`
EventHasParts(e) == e.has_content /\ e.parts # <<>>

\* final_text += part.text + "\n"        (app, judge)
ChatAppendNoSep(ft, text) == ft \o text
ChatAppend(ft, text) == ft \o text \o <<NL>>

\* final_text += part.text               (orchestrator)
StreamAppendSep(ft, text) == ft \o text \o <<NL>>
StreamAppend(ft, text) == ft \o text

AppendText(srv, ft, text) == IF srv = "orchestrator" THEN StreamAppend(ft, text)
                             ELSE ChatAppend(ft, text)

\* for part in event.content.parts: if part.text: final_text += ...
RECURSIVE AccumulateParts(_, _, _)
AccumulateParts(srv, ft, parts) ==
    IF parts = <<>> THEN ft
    ELSE AccumulateParts(srv,
                         IF PartHasText(Head(parts)) THEN AppendText(srv, ft, Head(parts).text) ELSE ft,
                         Tail(parts))

\* the body of one iteration of `async for event in runner.run_async(...)`
AccumulateEvent(srv, ft, e) == IF EventHasParts(e) THEN AccumulateParts(srv, ft, e.parts) ELSE ft

\* ------------------------------------------------------------------ records
ProgressMessage(a) ==
    CASE a = "researcher" -> "Researcher is gathering information..."
      [] a = "judge" -> "Judge is evaluating findings..."
      [] a = "content_builder" -> "Content Builder is writing the course..."

ProgressRecord(a) == [type |-> "progress", text |-> ProgressMessage(a)]
ResultRecord(t) == [type |-> "result", text |-> t]

Last(q) == q[Len(q)]

\* the chunks one iteration of event_generator yields, appended to those already sent
StreamYieldResult(o, e) ==
    IF e.author \in KnownAuthors THEN Append(o, ProgressRecord(e.author))
    ELSE Append(o, ResultRecord(<<>>))
StreamYieldFront(o, e) ==
    IF e.author \in KnownAuthors THEN <<ProgressRecord(e.author)>> \o o ELSE o
StreamYieldTextOnly(o, e) ==
    IF e.author \in KnownAuthors /\ EventHasParts(e) THEN Append(o, ProgressRecord(e.author)) ELSE o
StreamYieldDedup(o, e) ==
    IF e.author \in KnownAuthors /\ (o = <<>> \/ Last(o) # ProgressRecord(e.author))
    THEN Append(o, ProgressRecord(e.author)) ELSE o
StreamYield(o, e) ==
    IF e.author = "researcher" THEN Append(o, ProgressRecord("researcher"))
    ELSE IF e.author = "judge" THEN Append(o, ProgressRecord("judge"))
    ELSE IF e.author = "content_builder" THEN Append(o, ProgressRecord("content_builder"))
    ELSE o

\* what event_generator has sent when run_async raises: there is no except clause
StreamOnErrorResult(o, ft) == Append(o, ResultRecord(Strip(ft)))
StreamOnError(o, ft) == o

\* the fragments of one event: every part that carries non-empty text, in part order
FromEvent(e) ==
    IF e.has_content
    THEN LET withText == SelectSeq(e.parts, LAMBDA p : ~p.none /\ Len(p.text) > 0)
         IN  [i \in 1..Len(withText) |-> withText[i].text]
    ELSE <<>>

\* ------------------------------------------------------------------ state
VARIABLES
    server,      \* which of the three servers this process is (adk_app.name)
    store,       \* runner.session_service: the triples that have a session
    pc,          \* per request: idle, start, create, run, done, failed, aborted
    req,         \* per request: the SimpleChatRequest / ChatRequest body
    session,     \* per request: the local `session` (its id, or None)
    final_text,  \* per request: the local `final_text`
    out,         \* per request: the records yielded to the StreamingResponse
    response,    \* per request: the JSON bodies returned (their "response" text)
    fetch,       \* per request: how get_session ended (none, found, absent, raised)
    created,     \* per request: the arguments of its create_session call, if any
    authors,     \* per request: the authors of the events consumed so far
    frags        \* per request: the fragments of the events consumed so far

vars == <<server, store, pc, req, session, final_text, out, response, fetch, created, authors, frags>>

NotCalled == <<>>
Requests == [user_id : UserIds, session_id : SessionIds]
DefaultRequest == [user_id |-> "test_user", session_id |-> "test_session"]

\* the triple get_session is called with
Triple(r) == <<server, req[r].user_id, req[r].session_id>>

\* the triple create_session is called with
CreateArgs(r) == <<server, req[r].user_id, req[r].session_id>>

\* where a raising get_session leaves the request: `except Exception: session = None`
AfterFetchErrorPropagate == "failed"
AfterFetchError == "create"

\* the assignment to the request's local final_text
SetFinalTextShared(ft, r, v) == [q \in Req |-> v]
SetFinalText(ft, r, v) == [ft EXCEPT ![r] = v]

Streaming == server = "orchestrator"

\* every request has arrived and none has started
Init ==
    /\ server \in Servers
    /\ store = {}
    /\ session = [r \in Req |-> NoSession]
    /\ final_text = [r \in Req |-> <<>>]
    /\ out = [r \in Req |-> <<>>]
    /\ response = [r \in Req |-> <<>>]
    /\ fetch = [r \in Req |-> "none"]
    /\ created = [r \in Req |-> NotCalled]
    /\ authors = [r \in Req |-> <<>>]
    /\ frags = [r \in Req |-> <<>>]
    /\ req \in {q \in [Req -> Requests] : q[1] = DefaultRequest}
    /\ pc = [r \in Req |-> "start"]

\* a single request of a later turn: its session exists and get_session has
\* returned it, run_async is about to yield the first event
InitFold ==
    /\ server \in Servers
    /\ req = [r \in Req |-> DefaultRequest]
    /\ store = {<<server, DefaultRequest.user_id, DefaultRequest.session_id>>}
    /\ pc = [r \in Req |-> IF r = 1 THEN "run" ELSE "idle"]
    /\ session = [r \in Req |-> IF r = 1 THEN DefaultRequest.session_id ELSE NoSession]
    /\ fetch = [r \in Req |-> IF r = 1 THEN "found" ELSE "none"]
    /\ created = [r \in Req |-> NotCalled]
    /\ final_text = [r \in Req |-> <<>>]
    /\ out = [r \in Req |-> <<>>]
    /\ response = [r \in Req |-> <<>>]
    /\ authors = [r \in Req |-> <<>>]
    /\ frags = [r \in Req |-> <<>>]

\* ------------------------------------------------------------------ session resolver
\* get_session returns the session
GetSessionFound(r) ==
    /\ pc[r] = "start"
    /\ Triple(r) \in store
    /\ session' = [session EXCEPT ![r] = req[r].session_id]
    /\ fetch' = [fetch EXCEPT ![r] = "found"]
    /\ pc' = [pc EXCEPT ![r] = "run"]
    /\ UNCHANGED <<server, store, req, final_text, out, response, created, authors, frags>>

\* get_session returns None
GetSessionAbsent(r) ==
    /\ pc[r] = "start"
    /\ Triple(r) \notin store
    /\ session' = [session EXCEPT ![r] = NoSession]
    /\ fetch' = [fetch EXCEPT ![r] = "absent"]
    /\ pc' = [pc EXCEPT ![r] = "create"]
    /\ UNCHANGED <<server, store, req, final_text, out, response, created, authors, frags>>

\* get_session raises, whether or not the session exists
GetSessionRaises(r) ==
    /\ pc[r] = "start"
    /\ session' = [session EXCEPT ![r] = NoSession]
    /\ fetch' = [fetch EXCEPT ![r] = "raised"]
    /\ pc' = [pc EXCEPT ![r] = AfterFetchError]
    /\ UNCHANGED <<server, store, req, final_text, out, response, created, authors, frags>>

\* create_session returns a session
CreateSessionOk(r) ==
    /\ pc[r] = "create"
    /\ created' = [created EXCEPT ![r] = CreateArgs(r)]
    /\ store' = store \cup {CreateArgs(r)}
    /\ session' = [session EXCEPT ![r] = CreateArgs(r)[3]]
    /\ pc' = [pc EXCEPT ![r] = "run"]
    /\ UNCHANGED <<server, req, final_text, out, response, fetch, authors, frags>>

\* create_session raises: the request ends in a server error
CreateSessionRaises(r) ==
    /\ pc[r] = "create"
    /\ created' = [created EXCEPT ![r] = CreateArgs(r)]
    /\ pc' = [pc EXCEPT ![r] = "failed"]
    /\ UNCHANGED <<server, store, req, session, final_text, out, response, fetch, authors, frags>>

\* ------------------------------------------------------------------ aggregation
\* /api/chat (app, judge): one event of the turn
ChatEvent(r, e) ==
    /\ ~Streaming
    /\ pc[r] = "run"
    /\ Len(authors[r]) < MaxEvents
    /\ final_text' = SetFinalText(final_text, r, AccumulateEvent(server, final_text[r], e))
    /\ authors' = [authors EXCEPT ![r] = Append(@, e.author)]
    /\ frags' = [frags EXCEPT ![r] = @ \o FromEvent(e)]
    /\ UNCHANGED <<server, store, pc, req, session, out, response, fetch, created>>

\* /api/chat (app, judge): the events are exhausted, the body is returned
ChatReturn(r) ==
    /\ ~Streaming
    /\ pc[r] = "run"
    /\ response' = [response EXCEPT ![r] = Append(@, Strip(final_text[r]))]
    /\ pc' = [pc EXCEPT ![r] = "done"]
    /\ UNCHANGED <<server, store, req, session, final_text, out, fetch, created, authors, frags>>

\* /api/chat_stream (orchestrator): one event of the turn
StreamEvent(r, e) ==
    /\ Streaming
    /\ pc[r] = "run"
    /\ Len(authors[r]) < MaxEvents
    /\ out' = [out EXCEPT ![r] = StreamYield(@, e)]
    /\ final_text' = SetFinalText(final_text, r, AccumulateEvent(server, final_text[r], e))
    /\ authors' = [authors EXCEPT ![r] = Append(@, e.author)]
    /\ frags' = [frags EXCEPT ![r] = @ \o FromEvent(e)]
    /\ UNCHANGED <<server, store, pc, req, session, response, fetch, created>>

\* /api/chat_stream (orchestrator): the events are exhausted, the result is yielded
StreamResult(r) ==
    /\ Streaming
    /\ pc[r] = "run"
    /\ out' = [out EXCEPT ![r] = Append(@, ResultRecord(Strip(final_text[r])))]
    /\ pc' = [pc EXCEPT ![r] = "done"]
    /\ UNCHANGED <<server, store, req, session, final_text, response, fetch, created, authors, frags>>

\* runner.run_async raises in place of the next event: nothing catches it
RunnerRaises(r) ==
    /\ pc[r] = "run"
    /\ pc' = [pc EXCEPT ![r] = "aborted"]
    /\ out' = [out EXCEPT ![r] = StreamOnError(@, final_text[r])]
    /\ UNCHANGED <<server, store, req, session, final_text, response, fetch, created, authors, frags>>

\* the request is inside `async for event in runner.run_async(...)`
Iterating(r) == pc[r] = "run"

Resolve(r) ==
    \/ GetSessionFound(r)
    \/ GetSessionAbsent(r)
    \/ GetSessionRaises(r)
    \/ CreateSessionOk(r)
    \/ CreateSessionRaises(r)

Next ==
    \E r \in Req :
        \/ Resolve(r)
        \/ Iterating(r) /\ \E e \in ConcEvents(r) : ChatEvent(r, e)
        \/ ChatReturn(r)
        \/ Iterating(r) /\ \E e \in ConcEvents(r) : StreamEvent(r, e)
        \/ StreamResult(r)
        \/ RunnerRaises(r)

NextFold ==
    \E r \in Req :
        \/ Iterating(r) /\ \E e \in Events : ChatEvent(r, e)
        \/ ChatReturn(r)
        \/ Iterating(r) /\ \E e \in Events : StreamEvent(r, e)
        \/ StreamResult(r)
        \/ RunnerRaises(r)

\* concurrent requests with a small set of events
Spec == Init /\ [][Next]_vars

\* the aggregation of one turn, over every event
SpecFold == InitFold /\ [][NextFold]_vars

\* ------------------------------------------------------------------ vocabulary of the claims
RECURSIVE Concat(_)
Concat(frs) == IF frs = <<>> THEN <<>> ELSE Head(frs) \o Concat(Tail(frs))

RECURSIVE JoinWith(_, _)
JoinWith(frs, sep) ==
    IF frs = <<>> THEN <<>>
    ELSE IF Len(frs) = 1 THEN Head(frs)
    ELSE Head(frs) \o <<sep>> \o JoinWith(Tail(frs), sep)

Known(as) == SelectSeq(as, LAMBDA a : a \in KnownAuthors)
ProgressOf(o) == SelectSeq(o, LAMBDA x : x.type = "progress")
NumResults(o) == Len(SelectSeq(o, LAMBDA x : x.type = "result"))
NumFinal(r) == Len(response[r]) + NumResults(out[r])

IsProgressFor(x, a) == x.type = "progress" /\ x.text = ProgressMessage(a)
IsResultWith(x, t) == x.type = "result" /\ x.text = t

\* o is exactly the progress records of the known authors among as, in order
ProgressExactly(o, as) ==
    /\ Len(o) = Len(Known(as))
    /\ \A i \in 1..Len(o) : IsProgressFor(o[i], Known(as)[i])

\* o2 is o1 with one record added at the end
Extends(o1, o2) ==
    /\ Len(o2) = Len(o1) + 1
    /\ \A i \in 1..Len(o1) : o2[i].type = o1[i].type /\ o2[i].text = o1[i].text

ConsumedOne(r) == Len(authors'[r]) = Len(authors[r]) + 1
NewFrags(r) == SubSeq(frags'[r], Len(frags[r]) + 1, Len(frags'[r]))

\* an event with content absent, or with no parts
NoContentEvents == {e \in Events : ~e.has_content \/ e.parts = <<>>}

\* ------------------------------------------------------------------ claims

\* C1: a request produces at most one final output (a response body or a result
\* record), it has exactly one precisely when its event sequence has ended, and
\* once the final output exists no further event is consumed.
C1_OneFinalOutput ==
    /\ [](\A r \in Req : NumFinal(r) <= 1 /\ (NumFinal(r) = 1 <=> pc[r] = "done"))
    /\ [][\A r \in Req : NumFinal(r) >= 1 =>
            /\ authors'[r] = authors[r]
            /\ final_text'[r] = final_text[r]
            /\ Len(out'[r]) = Len(out[r])
            /\ Len(response'[r]) = Len(response[r])]_vars

C1_Witness ==
    \E r \in Req : pc[r] = "done" /\ Len(authors[r]) >= 2 /\ frags[r] # <<>> /\ NumFinal(r) = 1

\* C2: create_session is invoked once per (app_name, user_id, session_id) triple:
\* once a request has created the session of a triple, no request, in any
\* interleaving, calls create_session with that triple again.
C2_CreateOnce ==
    [][\A r \in Req : created'[r] # created[r] => created'[r] \notin store]_vars

\* C3: a stream only grows at its end, the record an event causes is added when
\* that event is consumed, and a result record is the last record of the stream.
C3_OrderedResultLast ==
    /\ [](\A r \in Req : \A i \in 1..Len(out[r]) : out[r][i].type = "result" => i = Len(out[r]))
    /\ [][\A r \in Req :
            \/ /\ Len(out'[r]) = Len(out[r])
               /\ \A i \in 1..Len(out[r]) : out'[r][i].type = out[r][i].type /\ out'[r][i].text = out[r][i].text
            \/ /\ ConsumedOne(r)
               /\ Extends(out[r], out'[r])
               /\ IsProgressFor(Last(out'[r]), Last(authors'[r]))
            \/ /\ pc[r] = "run" /\ pc'[r] = "done"
               /\ Extends(out[r], out'[r])
               /\ Last(out'[r]).type = "result"]_vars

C3_Witness ==
    \E r \in Req :
        /\ Streaming /\ pc[r] = "done"
        /\ authors[r] = <<"researcher", "judge">>
        /\ Len(out[r]) = 3
        /\ IsProgressFor(out[r][1], "researcher")
        /\ IsProgressFor(out[r][2], "judge")
        /\ out[r][3].type = "result"

\* C4: the body of a buffered response is the fragments of all events, in order,
\* joined with a newline and then stripped.
C4_BufferedJoin ==
    \A r \in Req :
        (~Streaming /\ pc[r] = "done") => response[r] = <<Strip(JoinWith(frags[r], NL))>>

C4_Witness ==
    \E r \in Req :
        /\ ~Streaming /\ pc[r] = "done"
        /\ frags[r] = <<<<"a", " ">>, <<"a">>>>
        /\ response[r] = <<<<"a", " ", "\n", "a">>>>

\* C5: an event of an unknown author adds no record to the stream and appends its
\* fragments, unseparated, to the buffer; the result record holds the stripped
\* concatenation of the fragments of all events.
C5_UnknownAuthorText ==
    /\ [](\A r \in Req : Streaming =>
            /\ final_text[r] = Concat(frags[r])
            /\ pc[r] = "done" => (out[r] # <<>> /\ IsResultWith(Last(out[r]), Strip(Concat(frags[r])))))
    /\ [][\A r \in Req :
            (Streaming /\ ConsumedOne(r) /\ Last(authors'[r]) \notin KnownAuthors) =>
                /\ Len(out'[r]) = Len(out[r])
                /\ final_text'[r] = final_text[r] \o Concat(NewFrags(r))]_vars

C5_Witness ==
    \E r \in Req :
        /\ Streaming /\ pc[r] = "done"
        /\ authors[r] = <<"other", "other">>
        /\ frags[r] = <<<<"a", " ">>, <<"a">>>>
        /\ Len(out[r]) = 1
        /\ IsResultWith(out[r][1], <<"a", " ", "a">>)

\* C6: a get_session that raises is treated as absence: the request fails only if
\* create_session was called and raised, create_session is called with the triple
\* of the request, and the request then runs with the created session.
C6_FetchFailureIsAbsence ==
    \A r \in Req :
        /\ pc[r] = "failed" => created[r] # NotCalled
        /\ (fetch[r] \in {"absent", "raised"} /\ pc[r] \in {"run", "done", "aborted", "failed"}) =>
                created[r] = <<server, req[r].user_id, req[r].session_id>>
        /\ (fetch[r] \in {"absent", "raised"} /\ pc[r] \in {"run", "done", "aborted"}) =>
                (session[r] = req[r].session_id /\ created[r] \in store)
        /\ fetch[r] = "found" => created[r] = NotCalled

C6_Witness ==
    \E r \in Req :
        /\ fetch[r] = "raised" /\ pc[r] = "done"
        /\ req[r].session_id = "s2"
        /\ created[r] = <<server, "test_user", "s2">>

\* C7: when run_async raises after k events, no body is returned and the stream is
\* exactly the progress records of those k events, with no result record.
C7_RunnerErrorTruncates ==
    \A r \in Req :
        pc[r] = "aborted" =>
            /\ response[r] = <<>>
            /\ NumResults(out[r]) = 0
            /\ IF Streaming THEN ProgressExactly(out[r], authors[r]) ELSE out[r] = <<>>

C7_Witness ==
    \E r \in Req :
        /\ Streaming /\ pc[r] = "aborted"
        /\ authors[r] = <<"researcher", "other">>
        /\ frags[r] # <<>>
        /\ Len(out[r]) = 1

\* C8: in every interleaving, the buffer, the records and the final output of a
\* request are those of its own events alone.
C8_Isolation ==
    \A r \in Req :
        /\ final_text[r] = (IF Streaming THEN Concat(frags[r])
                            ELSE Concat([i \in 1..Len(frags[r]) |-> frags[r][i] \o <<NL>>]))
        /\ ProgressExactly(ProgressOf(out[r]), IF Streaming THEN authors[r] ELSE <<>>)
        /\ pc[r] = "done" =>
              IF Streaming
              THEN out[r] # <<>> /\ IsResultWith(Last(out[r]), Strip(Concat(frags[r])))
              ELSE response[r] = <<Strip(JoinWith(frags[r], NL))>>

C8_Witness ==
    \E r1 \in Req, r2 \in Req :
        /\ r1 # r2
        /\ pc[r1] = "run" /\ authors[r1] # <<>>
        /\ pc[r2] = "run" /\ authors[r2] # <<>>
        /\ final_text[r1] # final_text[r2]

\* C9 as stated: consuming an event with no content changes neither the buffer nor
\* the output, in either policy.
C9_NoContentNoOutput ==
    [][\A r \in Req : \A e \in NoContentEvents :
            (ChatEvent(r, e) \/ StreamEvent(r, e)) =>
                /\ final_text'[r] = final_text[r]
                /\ Len(response'[r]) = Len(response[r])
                /\ Len(out'[r]) = Len(out[r])]_vars

\* C9 amended: consuming an event with no content leaves the buffer unchanged and
\* returns nothing; in the stream it adds no record when the author is unknown and
\* exactly the progress record of the author when the author is known.
C9_NoContentSkipsText ==
    [][\A r \in Req : \A e \in NoContentEvents :
            (ChatEvent(r, e) \/ StreamEvent(r, e)) =>
                /\ final_text'[r] = final_text[r]
                /\ Len(response'[r]) = Len(response[r])
                /\ IF Streaming /\ e.author \in KnownAuthors
                   THEN Extends(out[r], out'[r]) /\ IsProgressFor(Last(out'[r]), e.author)
                   ELSE Len(out'[r]) = Len(out[r])]_vars

C9_Witness ==
    \E r \in Req :
        /\ Streaming /\ pc[r] = "run"
        /\ authors[r] = <<"other", "researcher">>
        /\ frags[r] = <<>>
        /\ final_text[r] = <<>>
        /\ Len(out[r]) = 1
        /\ IsProgressFor(out[r][1], "researcher")

\* C10: a stream holds one progress record per event of a known author, with no
\* de-duplication, and each carries the message of that event's author.
C10_ProgressPerEvent ==
    \A r \in Req :
        Streaming =>
            /\ Len(ProgressOf(out[r])) = Len(Known(authors[r]))
            /\ \A i \in 1..Len(ProgressOf(out[r])) :
                  ProgressOf(out[r])[i].text = ProgressMessage(Known(authors[r])[i])

C10_Witness ==
    \E r \in Req :
        /\ Streaming /\ pc[r] = "done"
        /\ authors[r] = <<"judge", "judge">>
        /\ frags[r] = <<<<"a">>>>
        /\ Len(ProgressOf(out[r])) = 2
        /\ IsResultWith(Last(out[r]), <<"a">>)

====
